---- MODULE Spec2Model ----
(***************************************************************************)
(* Model of vmware.py: WaitForTasks (the property-collector wait loop).    *)
(*                                                                         *)
(* One run of WaitForTasks(tasks, si) is modelled step by step: the call   *)
(* to CreateFilter, the `while len(taskList)` test, each WaitForUpdates    *)
(* call, each change record of the returned update, the version            *)
(* assignment at the end of a batch and the finally block.  The property   *)
(* collector is the environment: it may fail any call and may return any   *)
(* batch of change records.                                                *)
(*                                                                         *)
(* The three nested for-loops of lines 71-74 visit the change records of   *)
(* an update in one fixed order.  An update is held here as its version    *)
(* token and the number of change records it carries; the content of a     *)
(* record (objSet.obj and the changeSet entry) is drawn when the loops     *)
(* reach it, the only place where the code reads it.                       *)
(***************************************************************************)
EXTENDS Integers, Sequences, FiniteSets, TLC

\* ---------------------------------------------------------------- bounds
MaxTasks == 2
MaxBatches == 2
MaxBatchLen == 2
MaxVMs == 2
MaxSnaps == 2

\* ------------------------------------------------------------- vocabulary
\* Managed-object ids of the vim.Task objects the server may report.
Handles == {"task-1", "task-2"}

\* vim.TaskInfo.State
States == {"queued", "running", "success", "error"}

None == "None"

\* A change of a vim.Task property: the whole info object (its state is
\* change.val.state), the info.state property (change.val is the state), or
\* some other property of the task.
Changes ==
  [name : {"info"}, val : [state : States]]
    \cup [name : {"info.state"}, val : States]
    \cup [name : {"info.progress"}, val : {50}]

\* One visit of the innermost loop: objSet.obj and one entry of its changeSet.
Records == [obj : Handles, change : Changes]

RECURSIVE SeqsUpTo(_, _)
SeqsUpTo(S, n) ==
  IF n = 0 THEN {<<>>}
  ELSE LET shorter == SeqsUpTo(S, n - 1)
       IN  shorter \cup {Append(s, x) : s \in {t \in shorter : Len(t) = n - 1}, x \in S}

\* The task lists a caller may pass (repetitions included).
Inputs == SeqsUpTo(Handles, MaxTasks)

\* ------------------------------------------------------------ pure helpers
\* str(task) of a managed object: 'type:moId'
StrOf(h) == "'vim.Task:" \o h \o "'"

\* taskList = [str(task) for task in tasks]
RECURSIVE TaskStrings(_)
TaskStrings(ts) ==
  IF ts = <<>> THEN <<>> ELSE <<StrOf(Head(ts))>> \o TaskStrings(Tail(ts))

\* s in taskList
InList(s, l) == \E i \in 1..Len(l) : l[i] = s

\* Variant of ListRemove: drops the head of the list, whatever s is (pop(0)).
ListRemoveHead(l, s) == IF l = <<>> THEN <<>> ELSE Tail(l)

\* list.remove(s): drops the first occurrence of s
RECURSIVE ListRemove(_, _)
ListRemove(l, s) ==
  IF l = <<>> THEN <<>>
  ELSE IF Head(l) = s THEN Tail(l)
  ELSE <<Head(l)>> \o ListRemove(Tail(l), s)

\* task.info.error: the fault the server recorded for a failed task
TaskError(h) == "fault-of-" \o h

NoExc == [kind |-> "none", detail |-> None]
RemoteTaskFailed(h) == [kind |-> "RemoteTaskFailed", detail |-> TaskError(h)]
Fault(op) == [kind |-> "Fault", detail |-> op]
Success == [kind |-> "success", detail |-> None]
Pending == [kind |-> "pending", detail |-> None]

\* Lines 75-80: the state a change record carries, None when the record is
\* skipped by the `else: continue`.
ChangeState(change) ==
  IF change.name = "info" THEN change.val.state
  ELSE IF change.name = "info.state" THEN change.val
  ELSE None

\* Variant of ProcessChange: any state of a tracked task but error removes it.
ProcessChangeRemoveUnlessError(tl, st, rec) ==
  LET s == ChangeState(rec.change)
  IN  IF s = None
        THEN [taskList |-> tl, state |-> st, exc |-> NoExc]
      ELSE IF ~InList(StrOf(rec.obj), tl)
        THEN [taskList |-> tl, state |-> s, exc |-> NoExc]
      ELSE IF s = "error"
        THEN [taskList |-> tl, state |-> s, exc |-> RemoteTaskFailed(rec.obj)]
      ELSE [taskList |-> ListRemove(tl, StrOf(rec.obj)), state |-> s, exc |-> NoExc]

\* Variant of ProcessChange: an error state is treated like a running one.
ProcessChangeErrorNotRaised(tl, st, rec) ==
  LET s == ChangeState(rec.change)
  IN  IF s = None
        THEN [taskList |-> tl, state |-> st, exc |-> NoExc]
      ELSE IF ~InList(StrOf(rec.obj), tl)
        THEN [taskList |-> tl, state |-> s, exc |-> NoExc]
      ELSE IF s = "success"
        THEN [taskList |-> ListRemove(tl, StrOf(rec.obj)), state |-> s, exc |-> NoExc]
      ELSE [taskList |-> tl, state |-> s, exc |-> NoExc]

\* Variant of ProcessChange: a record of another property falls through with
\* the state left by the record before it (no `else: continue`).
ProcessChangeNoContinue(tl, st, rec) ==
  LET s == IF ChangeState(rec.change) = None THEN st ELSE ChangeState(rec.change)
  IN  IF ~InList(StrOf(rec.obj), tl)
        THEN [taskList |-> tl, state |-> s, exc |-> NoExc]
      ELSE IF s = "success"
        THEN [taskList |-> ListRemove(tl, StrOf(rec.obj)), state |-> s, exc |-> NoExc]
      ELSE IF s = "error"
        THEN [taskList |-> tl, state |-> s, exc |-> RemoteTaskFailed(rec.obj)]
      ELSE [taskList |-> tl, state |-> s, exc |-> NoExc]

\* Variant of ProcessChange: no membership test before the removal, so that
\* list.remove raises ValueError for a string that is not in the list.
ProcessChangeNoMembership(tl, st, rec) ==
  LET s == ChangeState(rec.change)
  IN  IF s = None
        THEN [taskList |-> tl, state |-> st, exc |-> NoExc]
      ELSE IF s = "success"
        THEN IF InList(StrOf(rec.obj), tl)
               THEN [taskList |-> ListRemove(tl, StrOf(rec.obj)), state |-> s, exc |-> NoExc]
               ELSE [taskList |-> tl, state |-> s, exc |-> Fault("ValueError")]
      ELSE IF s = "error" /\ InList(StrOf(rec.obj), tl)
        THEN [taskList |-> tl, state |-> s, exc |-> RemoteTaskFailed(rec.obj)]
      ELSE [taskList |-> tl, state |-> s, exc |-> NoExc]

\* Lines 75-89, the body of the innermost loop, for one record.  Gives the
\* new taskList, the new value of the local `state` and the exception raised
\* (NoExc when the body runs to its end or continues).
ProcessChange(tl, st, rec) ==
  LET s == ChangeState(rec.change)
  IN  IF s = None
        THEN [taskList |-> tl, state |-> st, exc |-> NoExc]
      ELSE IF ~InList(StrOf(rec.obj), tl)
        THEN [taskList |-> tl, state |-> s, exc |-> NoExc]
      ELSE IF s = "success"
        THEN [taskList |-> ListRemove(tl, StrOf(rec.obj)), state |-> s, exc |-> NoExc]
      ELSE IF s = "error"
        THEN [taskList |-> tl, state |-> s, exc |-> RemoteTaskFailed(rec.obj)]
      ELSE [taskList |-> tl, state |-> s, exc |-> NoExc]

\* Variant of LoopCondition: the loop body runs before the list is tested.
LoopConditionAlways(tl) == TRUE

\* Line 69: the condition of `while len(taskList)`
LoopCondition(tl) == Len(tl) # 0

\* Variant of ReleaseRuns: Destroy placed after the loop, not in a finally.
ReleaseRunsOnNormalExitOnly(f, pending) == f # None /\ pending = NoExc

\* Lines 92-93: the finally block runs whatever is propagating and calls
\* Destroy when `filter` is truthy.
ReleaseRuns(f, pending) == f # None

\* Lines 92-94 and the return: what the caller receives when the finally
\* block is left.  An exception raised by filter.Destroy() replaces the one
\* that was propagating.
Delivered(pending, destroyFails) ==
  IF destroyFails THEN Fault("Destroy")
  ELSE IF pending = NoExc THEN Success
  ELSE pending

\* ------------------------------------------------------------------ state
VARIABLES
  tasks,        \* the argument of WaitForTasks
  pc,           \* position in WaitForTasks
  taskList,     \* local taskList
  filter,       \* local filter
  version,      \* local version (0 is None)
  state,        \* local state
  update,       \* local update: [version, length]
  idx,          \* number of change records of update visited so far
  rec,          \* the change record visited last (locals task and change)
  exc,          \* exception propagating out of the try block
  outcome,      \* what the caller received
  nCreate,      \* number of pc.CreateFilter calls
  nWait,        \* number of pc.WaitForUpdates calls
  nDestroy,     \* number of filter.Destroy calls
  seenSuccess,  \* history: handles for which a success record was visited
  errVisits,    \* history: tracked handles whose error record was visited, in order
  emptiedAt,    \* history: nWait when taskList became empty
  cursors,      \* history: the arguments of the WaitForUpdates calls, in order
  skipped,      \* reference run: why one record was left out of it ("none": none yet)
  refTaskList,  \* reference run: taskList
  refState,     \* reference run: state
  refExc        \* reference run: exception propagating

\* The action that calls WaitForTasks (turn_vm_on, turn_vm_off, revert_vm).
VARIABLES
  action,        \* "poweron", "poweroff" or "revert"; "none": WaitForTasks alone
  cpc,           \* position in the action
  vmIdx,         \* number of elements of vmList the for loop has taken
  vmSelected,    \* turn_vm_on/off: vm.name in vmnames, for the vm under test
  vmPower,       \* turn_vm_on/off: vm.runtime.powerState of that vm
  task,          \* local task, as the list passed to WaitForTasks
  snapshotFound, \* local snapshot_found of revert_vm
  rem1,          \* revert_vm: root snapshots of the vm still to visit
  rem2,          \* revert_vm: children of the root snapshot still to visit
  rem3,          \* revert_vm: grandchildren still to visit
  nSubmitted,    \* history: tasks submitted (2: two or more)
  unwaited,      \* history: tasks submitted, not seen to succeed (2: two or more)
  nDone          \* history: success messages printed

callVars == <<action, cpc, vmIdx, vmSelected, vmPower, task,
              snapshotFound, rem1, rem2, rem3, nSubmitted, unwaited, nDone>>

progVars == <<tasks, pc, taskList, filter, version, state, update, idx, rec,
              exc, outcome, nCreate, nWait, nDestroy>>
histVars == <<seenSuccess, errVisits, emptiedAt, cursors>>
refVars == <<skipped, refTaskList, refState, refExc>>
vars == <<progVars, histVars, refVars, callVars>>

NoUpdate == [version |-> 0, length |-> 0]
NoRecord == [obj |-> None, change |-> [name |-> None, val |-> None]]

\* No action is running: WaitForTasks is taken alone.
NoCaller ==
  /\ action = "none"
  /\ cpc = "none"
  /\ vmIdx = 0
  /\ vmSelected = FALSE
  /\ vmPower = None
  /\ task = <<>>
  /\ snapshotFound = FALSE
  /\ rem1 = 0
  /\ rem2 = 0
  /\ rem3 = 0
  /\ nSubmitted = 0
  /\ unwaited = 0
  /\ nDone = 0

Init ==
  /\ NoCaller
  /\ tasks \in Inputs
  /\ pc = "call"
  /\ taskList = <<>>
  /\ filter = None
  /\ version = 0
  /\ state = None
  /\ update = NoUpdate
  /\ idx = 0
  /\ rec = NoRecord
  /\ exc = NoExc
  /\ outcome = Pending
  /\ nCreate = 0
  /\ nWait = 0
  /\ nDestroy = 0
  /\ seenSuccess = {}
  /\ errVisits = <<>>
  /\ emptiedAt = 0
  /\ cursors = <<>>
  /\ skipped = "none"
  /\ refTaskList = <<>>
  /\ refState = None
  /\ refExc = NoExc

\* Lines 51-66, CreateFilter returns a filter.
CreateFilterOk ==
  /\ pc = "call"
  /\ taskList' = TaskStrings(tasks)
  /\ refTaskList' = TaskStrings(tasks)
  /\ nCreate' = nCreate + 1
  /\ filter' = "filter"
  /\ version' = 0
  /\ state' = None
  /\ pc' = "while"
  /\ UNCHANGED <<tasks, update, idx, rec, exc, outcome, nWait, nDestroy>>
  /\ UNCHANGED <<histVars, skipped, refState, refExc>>
  /\ UNCHANGED callVars

\* Variant of CreateFilterFail: the failure is caught and the wait goes on
\* without a filter.
CreateFilterFailSwallowed ==
  /\ pc = "call"
  /\ taskList' = TaskStrings(tasks)
  /\ refTaskList' = TaskStrings(tasks)
  /\ nCreate' = nCreate + 1
  /\ pc' = "while"
  /\ UNCHANGED <<tasks, filter, version, state, update, idx, rec, exc, nWait,
                 nDestroy, outcome>>
  /\ UNCHANGED <<histVars, skipped, refState, refExc>>
  /\ UNCHANGED callVars

\* Lines 51-63, CreateFilter raises: the call is outside the try block.
CreateFilterFail ==
  /\ pc = "call"
  /\ taskList' = TaskStrings(tasks)
  /\ refTaskList' = TaskStrings(tasks)
  /\ nCreate' = nCreate + 1
  /\ outcome' = Fault("CreateFilter")
  /\ pc' = "done"
  /\ UNCHANGED <<tasks, filter, version, state, update, idx, rec, exc, nWait,
                 nDestroy>>
  /\ UNCHANGED <<histVars, skipped, refState, refExc>>
  /\ UNCHANGED callVars

\* Line 69: while len(taskList)
WhileTest ==
  /\ pc = "while"
  /\ pc' = IF LoopCondition(taskList) THEN "wait" ELSE "finally"
  /\ UNCHANGED <<tasks, taskList, filter, version, state, update, idx, rec,
                 exc, outcome, nCreate, nWait, nDestroy>>
  /\ UNCHANGED <<histVars, refVars>>
  /\ UNCHANGED callVars

\* Line 70, WaitForUpdates returns an update.
WaitForUpdatesOk ==
  /\ pc = "wait"
  /\ nWait < MaxBatches
  /\ \E n \in 0..MaxBatchLen :
       update' = [version |-> nWait + 1, length |-> n]
  /\ nWait' = nWait + 1
  /\ cursors' = Append(cursors, version)
  /\ idx' = 0
  /\ pc' = "for"
  /\ UNCHANGED <<tasks, taskList, filter, version, state, rec, exc, outcome,
                 nCreate, nDestroy>>
  /\ UNCHANGED <<seenSuccess, errVisits, emptiedAt, refVars>>
  /\ UNCHANGED callVars

\* Variant of WaitForUpdatesFail: the failure is caught and the receive is
\* tried again.
WaitForUpdatesFailRetried ==
  /\ pc = "wait"
  /\ nWait <= MaxBatches
  /\ nWait' = nWait + 1
  /\ cursors' = Append(cursors, version)
  /\ pc' = "while"
  /\ UNCHANGED <<tasks, taskList, filter, version, state, update, idx, rec,
                 exc, outcome, nCreate, nDestroy>>
  /\ UNCHANGED <<seenSuccess, errVisits, emptiedAt, refVars>>
  /\ UNCHANGED callVars

\* Line 70, WaitForUpdates raises.
WaitForUpdatesFail ==
  /\ pc = "wait"
  /\ nWait' = nWait + 1
  /\ cursors' = Append(cursors, version)
  /\ exc' = Fault("WaitForUpdates")
  /\ refExc' = Fault("WaitForUpdates")
  /\ pc' = "finally"
  /\ UNCHANGED <<tasks, taskList, filter, version, state, update, idx, rec,
                 outcome, nCreate, nDestroy>>
  /\ UNCHANGED <<seenSuccess, errVisits, emptiedAt, skipped, refTaskList,
                 refState>>
  /\ UNCHANGED callVars

\* The record r may be left out of the reference run: the body of the loop
\* reaches neither the removal nor the raise for it.
Ignorable(tl, r) ==
  \/ ChangeState(r.change) = None
  \/ ~InList(StrOf(r.obj), tl)

\* Why an ignorable record is ignored: its name is not a state field, its
\* handle was passed by the caller and has left taskList, or its handle was
\* never passed.
SkipKind(ts, r) ==
  IF ChangeState(r.change) = None THEN "unrecognized"
  ELSE IF InList(StrOf(r.obj), TaskStrings(ts))
    THEN IF ChangeState(r.change) = "success" THEN "removed-success" ELSE "removed-other"
  ELSE "untracked"

\* Lines 71-89, one change record of the update.  The reference run visits
\* the same records, except for at most one ignorable record.
ProcessRecord ==
  /\ pc = "for"
  /\ idx < update.length
  /\ \E r \in Records, skip \in BOOLEAN :
       LET res == ProcessChange(taskList, state, r)
           ref == ProcessChange(refTaskList, refState, r)
       IN  /\ rec' = r
           /\ idx' = idx + 1
           /\ taskList' = res.taskList
           /\ state' = res.state
           /\ exc' = res.exc
           /\ pc' = IF res.exc = NoExc THEN "for" ELSE "finally"
           /\ seenSuccess' =
                IF ChangeState(r.change) = "success"
                  THEN seenSuccess \cup {r.obj} ELSE seenSuccess
           /\ errVisits' =
                IF ChangeState(r.change) = "error" /\ InList(StrOf(r.obj), taskList)
                  THEN Append(errVisits, r.obj) ELSE errVisits
           /\ emptiedAt' =
                IF taskList # <<>> /\ res.taskList = <<>> THEN nWait ELSE emptiedAt
           /\ skip => skipped = "none" /\ Ignorable(taskList, r)
           /\ IF skip
                THEN /\ skipped' = SkipKind(tasks, r)
                     /\ UNCHANGED <<refTaskList, refState, refExc>>
                ELSE /\ skipped' = skipped
                     /\ refTaskList' = ref.taskList
                     /\ refState' = ref.state
                     /\ refExc' = ref.exc
  /\ UNCHANGED <<tasks, filter, version, update, outcome, nCreate, nWait,
                 nDestroy, cursors>>
  /\ UNCHANGED callVars

\* Variant of EndBatch: the version is not moved to that of the update.
EndBatchNoAdvance ==
  /\ pc = "for"
  /\ idx = update.length
  /\ pc' = "while"
  /\ UNCHANGED <<tasks, taskList, filter, version, state, update, idx, rec,
                 exc, outcome, nCreate, nWait, nDestroy>>
  /\ UNCHANGED <<histVars, refVars>>
  /\ UNCHANGED callVars

\* Line 91: version = update.version, then back to the while test.
EndBatch ==
  /\ pc = "for"
  /\ idx = update.length
  /\ version' = update.version
  /\ pc' = "while"
  /\ UNCHANGED <<tasks, taskList, filter, state, update, idx, rec, exc,
                 outcome, nCreate, nWait, nDestroy>>
  /\ UNCHANGED <<histVars, refVars>>
  /\ UNCHANGED callVars

\* Lines 92-94: the finally block, then the return or the re-raise.
Finally ==
  /\ pc = "finally"
  /\ IF ReleaseRuns(filter, exc)
       THEN /\ nDestroy' = nDestroy + 1
            /\ \E destroyFails \in BOOLEAN :
                 outcome' = Delivered(exc, destroyFails)
       ELSE /\ nDestroy' = nDestroy
            /\ outcome' = Delivered(exc, FALSE)
  /\ pc' = "done"
  /\ UNCHANGED <<tasks, taskList, filter, version, state, update, idx, rec,
                 exc, nCreate, nWait>>
  /\ UNCHANGED <<histVars, refVars>>
  /\ UNCHANGED callVars

Next ==
  \/ CreateFilterOk
  \/ CreateFilterFail
  \/ WhileTest
  \/ WaitForUpdatesOk
  \/ WaitForUpdatesFail
  \/ ProcessRecord
  \/ EndBatch
  \/ Finally

Spec == Init /\ [][Next]_vars

\* ------------------------------------- turn_vm_on, turn_vm_off, revert_vm
\* The elements of vmList and the snapshot trees are read from the server
\* while the loops run: vmList is held as the number of its elements taken (whether
\* another one follows is drawn when the loop asks), a snapshot list as the
\* number of its elements still to visit, and what the code reads of an
\* element (vm.name in vmnames, vm.runtime.powerState, snapshot.name ==
\* snapshot_name) is drawn when the loop takes it.

\* vim.VirtualMachinePowerState
PowerStates == {"poweredOn", "poweredOff", "suspended"}

\* Lines 99 and 110: the power state the action leaves alone.
TargetState(a) == IF a = "poweron" THEN "poweredOn" ELSE "poweredOff"

\* History counters count 0, 1, two or more.
CountUp(n) == IF n < 2 THEN n + 1 ELSE n

\* The frame of WaitForTasks: its argument, its position and fresh locals.
WaitFrame(ts, p) ==
  /\ tasks' = ts
  /\ pc' = p
  /\ taskList' = <<>>
  /\ filter' = None
  /\ version' = 0
  /\ state' = None
  /\ update' = NoUpdate
  /\ idx' = 0
  /\ rec' = NoRecord
  /\ exc' = NoExc
  /\ outcome' = Pending
  /\ nCreate' = 0
  /\ nWait' = 0
  /\ nDestroy' = 0
  /\ seenSuccess' = {}
  /\ errVisits' = <<>>
  /\ emptiedAt' = 0
  /\ cursors' = <<>>
  /\ skipped' = "none"
  /\ refTaskList' = <<>>
  /\ refState' = None
  /\ refExc' = NoExc

\* Lines 45-53: a call WaitForTasks(ts, si).
EnterWaitForTasks(ts) == WaitFrame(ts, "call")

\* Line 94: WaitForTasks has returned or raised, its frame is gone.
LeaveWaitForTasks == WaitFrame(<<>>, "idle")

waitVars == <<progVars, histVars, refVars>>

\* Lines 211-220: main has dispatched to one of the three actions.
ActionInit ==
  /\ action \in {"poweron", "poweroff", "revert"}
  /\ cpc = "loop"
  /\ vmIdx = 0
  /\ vmSelected = FALSE
  /\ vmPower = None
  /\ task = <<>>
  /\ snapshotFound = FALSE
  /\ rem1 = 0
  /\ rem2 = 0
  /\ rem3 = 0
  /\ nSubmitted = 0
  /\ unwaited = 0
  /\ nDone = 0
  /\ tasks = <<>>
  /\ pc = "idle"
  /\ taskList = <<>>
  /\ filter = None
  /\ version = 0
  /\ state = None
  /\ update = NoUpdate
  /\ idx = 0
  /\ rec = NoRecord
  /\ exc = NoExc
  /\ outcome = Pending
  /\ nCreate = 0
  /\ nWait = 0
  /\ nDestroy = 0
  /\ seenSuccess = {}
  /\ errVisits = <<>>
  /\ emptiedAt = 0
  /\ cursors = <<>>
  /\ skipped = "none"
  /\ refTaskList = <<>>
  /\ refState = None
  /\ refExc = NoExc

\* The handle the server gives to the next submitted task: a new one.
NewHandle(n) == IF n = 0 THEN "task-1" ELSE "task-2"

\* Lines 97-99 (108-110): the loop takes the next vm and reads what the two
\* tests need; the power state is read for a named vm only.
PowerTakeVM ==
  /\ action \in {"poweron", "poweroff"}
  /\ cpc = "loop"
  /\ vmIdx < MaxVMs
  /\ vmIdx' = vmIdx + 1
  /\ vmSelected' \in BOOLEAN
  /\ vmPower' \in IF vmSelected' THEN PowerStates ELSE {None}
  /\ cpc' = "test"
  /\ UNCHANGED <<action, task, snapshotFound, rem1, rem2, rem3,
                 nSubmitted, unwaited, nDone>>
  /\ UNCHANGED waitVars

\* Lines 98-99, 104-105 (109-110, 115-116): a vm that is not named, or that
\* is in the target power state already: no operation.
PowerSkipVM ==
  /\ action \in {"poweron", "poweroff"}
  /\ cpc = "test"
  /\ ~(vmSelected /\ vmPower # TargetState(action))
  /\ vmSelected' = FALSE
  /\ vmPower' = None
  /\ cpc' = "loop"
  /\ UNCHANGED <<action, vmIdx, task, snapshotFound, rem1, rem2, rem3,
                 nSubmitted, unwaited, nDone>>
  /\ UNCHANGED waitVars

\* Lines 98-102 (109-113): a named vm in another power state: the operation
\* is submitted and WaitForTasks([task], si) is called.
PowerSubmit ==
  /\ action \in {"poweron", "poweroff"}
  /\ cpc = "test"
  /\ vmSelected
  /\ vmPower # TargetState(action)
  /\ vmSelected' = FALSE
  /\ vmPower' = None
  /\ task' = <<NewHandle(nSubmitted)>>
  /\ EnterWaitForTasks(task')
  /\ nSubmitted' = CountUp(nSubmitted)
  /\ unwaited' = CountUp(unwaited)
  /\ cpc' = "wait"
  /\ UNCHANGED <<action, vmIdx, snapshotFound, rem1, rem2, rem3, nDone>>

\* Line 101 (112): vm.PowerOn() (vm.PowerOff()) raises.
PowerSubmitFails ==
  /\ action \in {"poweron", "poweroff"}
  /\ cpc = "test"
  /\ vmSelected
  /\ vmPower # TargetState(action)
  /\ vmSelected' = FALSE
  /\ vmPower' = None
  /\ cpc' = "raised"
  /\ UNCHANGED <<action, vmIdx, task, snapshotFound, rem1, rem2, rem3,
                 nSubmitted, unwaited, nDone>>
  /\ UNCHANGED waitVars

\* The number of elements of ts for which a success record was visited.
SeenToSucceed(ts) == Cardinality({k \in 1..Len(ts) : ts[k] \in seenSuccess})

\* Variant of WaitReturns: an exception of WaitForTasks is caught and the
\* action goes on.
WaitReturnsErrorIgnored ==
  /\ cpc = "wait"
  /\ pc = "done"
  /\ IF outcome = Success
       THEN /\ unwaited' =
                 IF unwaited > SeenToSucceed(tasks)
                   THEN unwaited - SeenToSucceed(tasks) ELSE 0
            /\ nDone' = nDone + 1
       ELSE UNCHANGED <<unwaited, nDone>>
  /\ cpc' = IF action = "revert" THEN "end" ELSE "loop"
  /\ UNCHANGED <<action, vmIdx, vmSelected, vmPower, task,
                 snapshotFound, rem1, rem2, rem3, nSubmitted>>
  /\ LeaveWaitForTasks

\* Lines 102-103 (113-114, 149-150): WaitForTasks is back.  After a normal
\* return the success message is printed and the action goes on; an
\* exception leaves the action.
WaitReturns ==
  /\ cpc = "wait"
  /\ pc = "done"
  /\ IF outcome = Success
       THEN /\ unwaited' =
                 IF unwaited > SeenToSucceed(tasks)
                   THEN unwaited - SeenToSucceed(tasks) ELSE 0
            /\ nDone' = nDone + 1
            /\ cpc' = IF action = "revert" THEN "end" ELSE "loop"
       ELSE /\ cpc' = "raised"
            /\ UNCHANGED <<unwaited, nDone>>
  /\ UNCHANGED <<action, vmIdx, vmSelected, vmPower, task,
                 snapshotFound, rem1, rem2, rem3, nSubmitted>>
  /\ LeaveWaitForTasks

\* Line 97 (108): vmList is exhausted, the action returns.
PowerLoopEnd ==
  /\ action \in {"poweron", "poweroff"}
  /\ cpc = "loop"
  /\ vmIdx <= MaxVMs
  /\ cpc' = "end"
  /\ UNCHANGED <<action, vmIdx, vmSelected, vmPower, task,
                 snapshotFound, rem1, rem2, rem3, nSubmitted, unwaited, nDone>>
  /\ UNCHANGED waitVars

\* Lines 120-122: revert_vm takes the next vm and, when it is named, reads
\* its root snapshot list.
RevertTakeVM ==
  /\ action = "revert"
  /\ cpc = "loop"
  /\ vmIdx < MaxVMs
  /\ vmIdx' = vmIdx + 1
  /\ \E sel \in BOOLEAN :
       IF sel THEN rem1' \in 0..MaxSnaps /\ cpc' = "L1"
              ELSE UNCHANGED <<rem1, cpc>>
  /\ UNCHANGED <<action, vmSelected, vmPower, task, snapshotFound, rem2, rem3,
                 nSubmitted, unwaited, nDone>>
  /\ UNCHANGED waitVars

\* Lines 127-130, 134-137, 141-144: the snapshot is found and
\* RevertToSnapshot_Task() is submitted; task is the list of that one task.
RevertSubmit ==
  /\ snapshotFound' = TRUE
  /\ task' = <<NewHandle(nSubmitted)>>
  /\ nSubmitted' = CountUp(nSubmitted)
  /\ unwaited' = CountUp(unwaited)

\* Lines 123-132: one root snapshot; a match breaks out of the loop over the
\* root snapshots, otherwise its children are read.
RevertLevel1 ==
  /\ action = "revert"
  /\ cpc = "L1"
  /\ IF rem1 = 0
       THEN /\ cpc' = "loop"
            /\ UNCHANGED <<task, snapshotFound, rem1, rem2, nSubmitted, unwaited>>
       ELSE \E match \in BOOLEAN :
              IF match
                THEN /\ RevertSubmit
                     /\ rem1' = 0
                     /\ cpc' = "loop"
                     /\ UNCHANGED rem2
                ELSE /\ rem1' = rem1 - 1
                     /\ rem2' \in 0..MaxSnaps
                     /\ cpc' = "L2"
                     /\ UNCHANGED <<task, snapshotFound, nSubmitted, unwaited>>
  /\ UNCHANGED <<action, vmIdx, vmSelected, vmPower, rem3, nDone>>
  /\ UNCHANGED waitVars

\* Lines 132-139: one child snapshot; a match breaks out of the loop over the
\* children only, so that the loop over the root snapshots goes on.
RevertLevel2 ==
  /\ action = "revert"
  /\ cpc = "L2"
  /\ IF rem2 = 0
       THEN /\ cpc' = "L1"
            /\ UNCHANGED <<task, snapshotFound, rem2, rem3, nSubmitted, unwaited>>
       ELSE \E match \in BOOLEAN :
              IF match
                THEN /\ RevertSubmit
                     /\ rem2' = 0
                     /\ cpc' = "L1"
                     /\ UNCHANGED rem3
                ELSE /\ rem2' = rem2 - 1
                     /\ rem3' \in 0..MaxSnaps
                     /\ cpc' = "L3"
                     /\ UNCHANGED <<task, snapshotFound, nSubmitted, unwaited>>
  /\ UNCHANGED <<action, vmIdx, vmSelected, vmPower, rem1, nDone>>
  /\ UNCHANGED waitVars

\* Lines 139-145: one grandchild snapshot; a match breaks out of the loop
\* over the grandchildren only.
RevertLevel3 ==
  /\ action = "revert"
  /\ cpc = "L3"
  /\ IF rem3 = 0
       THEN /\ cpc' = "L2"
            /\ UNCHANGED <<task, snapshotFound, rem3, nSubmitted, unwaited>>
       ELSE \E match \in BOOLEAN :
              IF match
                THEN /\ RevertSubmit
                     /\ rem3' = 0
                     /\ cpc' = "L2"
                ELSE /\ rem3' = rem3 - 1
                     /\ cpc' = "L3"
                     /\ UNCHANGED <<task, snapshotFound, nSubmitted, unwaited>>
  /\ UNCHANGED <<action, vmIdx, vmSelected, vmPower, rem1, rem2, nDone>>
  /\ UNCHANGED waitVars

\* Lines 130, 137, 144: RevertToSnapshot_Task() raises.
RevertSubmitFails ==
  /\ action = "revert"
  /\ \/ cpc = "L1" /\ rem1 > 0
     \/ cpc = "L2" /\ rem2 > 0
     \/ cpc = "L3" /\ rem3 > 0
  /\ cpc' = "raised"
  /\ UNCHANGED <<action, vmIdx, vmSelected, vmPower, task,
                 snapshotFound, rem1, rem2, rem3, nSubmitted, unwaited, nDone>>
  /\ UNCHANGED waitVars

\* Lines 148-152: after the loop over vmList, WaitForTasks(task, si) when a
\* snapshot was found, the "not found" message otherwise.
RevertTail ==
  /\ action = "revert"
  /\ cpc = "loop"
  /\ vmIdx <= MaxVMs
  /\ IF snapshotFound
       THEN /\ EnterWaitForTasks(task)
            /\ cpc' = "wait"
       ELSE /\ cpc' = "end"
            /\ UNCHANGED waitVars
  /\ UNCHANGED <<action, vmIdx, vmSelected, vmPower, task,
                 snapshotFound, rem1, rem2, rem3, nSubmitted, unwaited, nDone>>

ActionNext ==
  \/ PowerTakeVM
  \/ PowerSkipVM
  \/ PowerSubmit
  \/ PowerSubmitFails
  \/ PowerLoopEnd
  \/ RevertTakeVM
  \/ RevertLevel1
  \/ RevertLevel2
  \/ RevertLevel3
  \/ RevertSubmitFails
  \/ RevertTail
  \/ WaitReturns
  \/ Next

ActionSpec == ActionInit /\ [][ActionNext]_vars

\* ----------------------------------------------------------------- claims
Returned == pc = "done"

\* A visit of the innermost loop happened in this step.
Visit == pc = "for" /\ idx' = idx + 1

\* C1: when CreateFilter returned a filter, filter.Destroy is called exactly
\* once, and it has been called when control is back at the caller, whatever
\* the exit path (all tasks succeeded, a tracked task reported an error,
\* WaitForUpdates raised); it is never called without a filter.
C1_ReleasedExactlyOnce ==
  /\ nDestroy <= 1
  /\ filter = None => nDestroy = 0
  /\ Returned /\ filter # None => nDestroy = 1
  /\ ~Returned => nDestroy = 0

\* C1 witness: the second WaitForUpdates call raised and the filter was
\* destroyed once before the return.
C1_Witness ==
  /\ Returned
  /\ exc = Fault("WaitForUpdates")
  /\ nWait = 2
  /\ filter # None
  /\ nDestroy = 1

\* C2 as stated: with an empty task collection no CreateFilter, no
\* WaitForUpdates and no Destroy call is made.
C2_EmptyMakesNoCalls ==
  tasks = <<>> /\ Returned => nCreate = 0 /\ nWait = 0 /\ nDestroy = 0

\* C2 amended: with an empty task collection no WaitForUpdates call is made,
\* but CreateFilter is called once; when it returns a filter that filter is
\* destroyed once and the wait returns success (or the fault of a failing
\* Destroy); when it raises, that fault is what the caller receives.
C2_EmptyCreatesAndReleases ==
  tasks = <<>> /\ Returned =>
    /\ nWait = 0
    /\ nCreate = 1
    /\ filter # None => nDestroy = 1 /\ outcome \in {Success, Fault("Destroy")}
    /\ filter = None => nDestroy = 0 /\ outcome = Fault("CreateFilter")

\* C2 witness: an empty wait that returned success after creating and
\* destroying a filter.
C2_Witness ==
  /\ tasks = <<>>
  /\ Returned
  /\ outcome = Success
  /\ nCreate = 1
  /\ nDestroy = 1
  /\ nWait = 0

\* C3: the wait returns success only when a success record has been visited
\* for every handle the caller passed.
C3_SuccessOnlyAfterAllSucceeded ==
  Returned /\ outcome = Success =>
    \A i \in 1..Len(tasks) : tasks[i] \in seenSuccess

\* C3 witness: two distinct handles, their successes spread over two updates.
C3_Witness ==
  /\ Returned
  /\ outcome = Success
  /\ Len(tasks) = 2
  /\ tasks[1] # tasks[2]
  /\ nWait = 2
  /\ seenSuccess = {tasks[1], tasks[2]}

\* C4: fail-fast.  Visiting an error record of a handle that is in taskList
\* leaves the loops at that record with that task's error propagating; from
\* then on no record is visited, no WaitForUpdates call is made, taskList is
\* left as it is, and the caller receives an error.
C4_FailFast ==
  [][/\ (Visit /\ ChangeState(rec'.change) = "error"
               /\ InList(StrOf(rec'.obj), taskList))
          => pc' = "finally" /\ exc' = RemoteTaskFailed(rec'.obj)
     /\ exc.kind = "RemoteTaskFailed"
          => /\ idx' = idx
             /\ nWait' = nWait
             /\ taskList' = taskList
             /\ pc' = "done"
             /\ outcome'.kind \in {"RemoteTaskFailed", "Fault"}
    ]_vars

\* C4 witness: the wait ended on an error record while another handle was
\* still in taskList with no record seen for it, and while a later record of
\* the same update was left unvisited.
C4_Witness ==
  /\ Returned
  /\ Len(errVisits) = 1
  /\ outcome.kind = "RemoteTaskFailed"
  /\ Len(taskList) = 2
  /\ seenSuccess = {}
  /\ idx < update.length
  /\ nWait = 1

\* C5 as stated: when an error record of a tracked handle has been visited,
\* the error the caller receives is the payload of the first such handle in
\* visiting order, and there is exactly one such visit.
C5_FirstErrorPayloadReported ==
  Returned /\ errVisits # <<>> =>
    /\ Len(errVisits) = 1
    /\ outcome = RemoteTaskFailed(errVisits[1])

\* C6 as stated: a remote task error that was raised in the loops is what
\* the caller receives, also when filter.Destroy raises.
C6_RemoteErrorNeverSwallowed ==
  Returned /\ exc.kind = "RemoteTaskFailed" => outcome = exc

\* C7: the while test leaves the loop without a further WaitForUpdates call
\* when taskList is empty and goes on to a WaitForUpdates call when it is
\* not; a wait that returned success made exactly the calls up to the one
\* whose update emptied taskList.
C7_ConsumesExactlyUpToLastSuccess ==
  /\ [][/\ pc = "while" /\ taskList = <<>>
             => pc' = "finally" /\ nWait' = nWait
        /\ pc = "while" /\ taskList # <<>>
             => pc' = "wait" /\ nWait' = nWait
        /\ pc = "wait" => nWait' = nWait + 1
        /\ pc \in {"finally", "done"} => nWait' = nWait
       ]_vars
  /\ [](Returned /\ outcome = Success => nWait = emptiedAt)

\* C7 witness: a successful wait that made two calls, the second update
\* carrying the success that emptied taskList, followed by another record.
C7_Witness ==
  /\ Returned
  /\ outcome = Success
  /\ nWait = 2
  /\ emptiedAt = 2
  /\ update.length = 2
  /\ ChangeState(rec.change) = "running"

\* C8: visiting a record of another property, or of a handle that is not in
\* taskList (whatever its state), leaves taskList as it is and raises
\* nothing; and the run on the same records without one such record has the
\* same taskList and the same exception propagating at every point, hence
\* the same outcome.
C8_IrrelevantRecordIgnored ==
  /\ [][Visit /\ Ignorable(taskList, rec')
          => taskList' = taskList /\ exc' = NoExc /\ pc' = "for"]_vars
  /\ [](skipped # "none" => refTaskList = taskList /\ refExc = exc)

\* C8 witness: a wait that returned success although an error record of a
\* handle the caller never passed was visited and left out of the reference
\* run.
C8_Witness ==
  /\ Returned
  /\ outcome = Success
  /\ skipped = "untracked"
  /\ rec.change.name = "info"
  /\ ChangeState(rec.change) = "error"
  /\ ~InList(StrOf(rec.obj), TaskStrings(tasks))
  /\ refExc = NoExc

\* A success record of a handle the caller passed and that has left taskList.
DuplicateSuccess(tl, r) ==
  /\ ChangeState(r.change) = "success"
  /\ InList(StrOf(r.obj), TaskStrings(tasks))
  /\ ~InList(StrOf(r.obj), tl)

\* C9: a success record of a handle that has already left taskList raises
\* nothing and removes nothing, and the run without that record has the same
\* taskList and the same exception propagating, hence the same outcome.
C9_DuplicateSuccessIsNoOp ==
  /\ [][Visit /\ DuplicateSuccess(taskList, rec')
          => taskList' = taskList /\ exc' = NoExc /\ pc' = "for"]_vars
  /\ [](skipped = "removed-success" => refTaskList = taskList /\ refExc = exc)

\* C9 witness: the second success of a handle arrived in the update that
\* removed it, while another handle was still in taskList, and was left out
\* of the reference run.
C9_Witness ==
  /\ pc = "for"
  /\ skipped = "removed-success"
  /\ idx = 2
  /\ Len(tasks) = 2
  /\ Len(taskList) = 1
  /\ DuplicateSuccess(taskList, rec)

\* C10: when CreateFilter raises, the caller receives that fault at once: no
\* WaitForUpdates call and no Destroy call is made.
C10_CreateFailurePropagates ==
  nCreate = 1 /\ filter = None =>
    /\ Returned
    /\ outcome = Fault("CreateFilter")
    /\ nWait = 0
    /\ nDestroy = 0

\* C10 witness: CreateFilter raised for a non-empty task list.
C10_Witness ==
  /\ Returned
  /\ tasks # <<>>
  /\ nCreate = 1
  /\ filter = None
  /\ outcome = Fault("CreateFilter")

\* C11: a WaitForUpdates call that returns no update raises out of the
\* loop; when a WaitForUpdates call raises, no further WaitForUpdates call is
\* made, the finally block is the next step and calls Destroy, and the
\* caller receives a fault (that of WaitForUpdates, or that of Destroy when
\* Destroy raises too), never success.
C11_ReceiveFailureNotRetried ==
  /\ [][/\ pc = "wait" /\ pc' # "for"
             => pc' = "finally" /\ exc' = Fault("WaitForUpdates")
        /\ exc = Fault("WaitForUpdates")
          => /\ nWait' = nWait
             /\ pc = "finally" /\ pc' = "done"
             /\ nDestroy' = nDestroy + 1
             /\ outcome' \in {Fault("WaitForUpdates"), Fault("Destroy")}
       ]_vars
  /\ [](Returned /\ exc = Fault("WaitForUpdates")
          => nDestroy = 1 /\ outcome.kind = "Fault")

\* C11 witness: the second receive raised while a handle was still in
\* taskList, and the caller received the fault of WaitForUpdates.
C11_Witness ==
  /\ Returned
  /\ outcome = Fault("WaitForUpdates")
  /\ nWait = 2
  /\ cursors = <<0, 1>>
  /\ taskList # <<>>
  /\ nDestroy = 1

\* The number of entries of the list l that are the string s.
Copies(l, s) == Cardinality({i \in 1..Len(l) : l[i] = s})

\* No handle occurs twice in the list of tasks ts.
Distinct(ts) == \A i, j \in 1..Len(ts) : ts[i] = ts[j] => i = j

\* C12: taskList starts as the strings of exactly the input handles; it
\* changes only by a visit of a success record ('info' or 'info.state') of a
\* handle that is in it, which removes one entry of that handle and nothing
\* else (for distinct input handles: the handle is then out of taskList, and
\* it never comes back); a queued or running record of a tracked handle
\* leaves taskList as it is and the loops go on.
C12_ActiveSetInvariant ==
  /\ [][/\ pc = "call" /\ pc' # "call" => taskList' = TaskStrings(tasks)
        /\ pc # "call" /\ taskList' # taskList
             => /\ Visit
                /\ rec'.change.name \in {"info", "info.state"}
                /\ ChangeState(rec'.change) = "success"
                /\ InList(StrOf(rec'.obj), taskList)
        /\ (Visit /\ ChangeState(rec'.change) = "success"
                  /\ InList(StrOf(rec'.obj), taskList))
             => /\ Len(taskList') = Len(taskList) - 1
                /\ \A h \in Handles :
                     Copies(taskList', StrOf(h)) =
                       Copies(taskList, StrOf(h)) - (IF h = rec'.obj THEN 1 ELSE 0)
                /\ Distinct(tasks) => ~InList(StrOf(rec'.obj), taskList')
        /\ (Visit /\ ChangeState(rec'.change) \in {"queued", "running"}
                  /\ InList(StrOf(rec'.obj), taskList))
             => taskList' = taskList /\ pc' = "for" /\ exc' = NoExc
        /\ pc # "call"
             => \A h \in Handles :
                  Copies(taskList', StrOf(h)) <= Copies(taskList, StrOf(h))
       ]_vars
  /\ [](pc # "call" =>
          \A i \in 1..Len(taskList) : InList(taskList[i], TaskStrings(tasks)))

\* C12 witness: of two distinct handles the second has left taskList on its
\* success, the first is still in it after a running record for it.
C12_Witness ==
  /\ pc = "for"
  /\ Len(tasks) = 2
  /\ Distinct(tasks)
  /\ taskList = <<StrOf(tasks[1])>>
  /\ seenSuccess = {tasks[2]}
  /\ rec.obj = tasks[1]
  /\ ChangeState(rec.change) = "running"

\* C13: the first WaitForUpdates call gets the unset version, call k+1 gets
\* the version token of the update that call k returned; version changes
\* only when every record of an update has been visited, and not when the
\* visit of an update was ended by a raise.
C13_CursorProtocol ==
  /\ [][/\ version' # version
             => pc = "for" /\ idx = update.length /\ version' = update.version
        /\ exc # NoExc => version' = version
        /\ pc = "wait" => cursors' = Append(cursors, version)
       ]_vars
  /\ [](/\ \A k \in 1..Len(cursors) : cursors[k] = k - 1
        /\ Len(cursors) = nWait
        /\ pc = "for" => update.version = nWait
        /\ pc = "while" => version = update.version)

\* C13 witness: the second call was made with the token of the first
\* update; the second update was left on an error record, and version is
\* still the token of the first update.
C13_Witness ==
  /\ Returned
  /\ cursors = <<0, 1>>
  /\ update.version = 2
  /\ version = 1
  /\ errVisits # <<>>
  /\ idx < update.length

\* C15 as stated: the input is treated as a set.  taskList holds the string
\* of a handle at most once, and once a success record has been visited for
\* every input handle (and nothing was raised) taskList is empty, so that
\* the while test ends the wait as it does for the input without repeats.
C15_InputTreatedAsSet ==
  /\ pc = "while" /\ exc = NoExc
                  /\ (\A i \in 1..Len(tasks) : tasks[i] \in seenSuccess)
       => taskList = <<>>
  /\ pc # "call" => \A h \in Handles : Copies(taskList, StrOf(h)) <= 1

\* The steps WaitForTasks takes by itself are taken: the interpreter goes on,
\* and a CreateFilter or Destroy call returns or raises.  WaitForUpdates may
\* block for ever: no fairness for it.
LiveSpec ==
  /\ Spec
  /\ WF_vars(CreateFilterOk \/ CreateFilterFail)
  /\ WF_vars(WhileTest)
  /\ WF_vars(ProcessRecord)
  /\ WF_vars(EndBatch)
  /\ WF_vars(Finally)

\* A success record has been visited for every input handle.
AllDelivered ==
  pc # "call" /\ \A i \in 1..Len(tasks) : tasks[i] \in seenSuccess

\* No error record of a tracked handle has been visited.
NoTrackedError == errVisits = <<>>

\* No WaitForUpdates call has raised.
NoReceiveFailure == exc # Fault("WaitForUpdates")

\* No call of the property collector or of the filter has raised.
NoCallFailure == exc.kind # "Fault" /\ outcome.kind # "Fault"

\* The input handle ts[i] has been seen in a terminal state.
SeenTerminal(h) ==
  h \in seenSuccess \/ \E k \in 1..Len(errVisits) : errVisits[k] = h

Printed == nDone' = nDone + 1

PowerAction == action \in {"poweron", "poweroff"}

\* Lines 101-102 (112-113): a power operation is submitted and waited on.
PowerSubmitted == PowerAction /\ cpc # "wait" /\ cpc' = "wait"

\* Lines 102-103 (113-114): the call of WaitForTasks is over.
WaitOver == cpc = "wait" /\ cpc' # "wait"

\* C16: when an action prints its success message, every task it submitted
\* has been passed to WaitForTasks and seen in state success; revert_vm
\* submits exactly one revert task in a run that finds the snapshot.
C16_SubmittedTasksAwaited ==
  /\ [][Printed => unwaited' = 0]_vars
  /\ [](action = "revert" /\ snapshotFound => nSubmitted = 1)

\* C17: turn_vm_on and turn_vm_off handle the named vms one at a time: an
\* operation is submitted only for a named vm in another power state than
\* the target and only while no earlier task is still waited for; the
\* action goes on after a wait only when the wait returned success with its
\* filter destroyed; after a wait that raised nothing more is done; at most
\* one filter exists at any time.
C17_OneVMAtATime ==
  /\ [][PowerSubmitted =>
          /\ vmSelected
          /\ vmPower # TargetState(action)
          /\ pc = "idle"
          /\ unwaited = 0
          /\ Len(tasks') = 1]_vars
  /\ [][PowerAction /\ WaitOver =>
          /\ pc = "done"
          /\ IF outcome = Success
               THEN cpc' = "loop" /\ nCreate = 1 /\ nDestroy = 1 /\ filter # None
               ELSE cpc' = "raised"]_vars
  /\ [][PowerAction /\ cpc = "raised" => cpc' = "raised" /\ pc' = "idle"]_vars
  /\ [](PowerAction => /\ nCreate <= 1
                       /\ (cpc # "wait" => pc = "idle" /\ nCreate = 0))

\* The second named vm is waited for, its filter created, after the wait
\* for the first returned success.
C17_Witness ==
  /\ PowerAction
  /\ cpc = "wait"
  /\ nDone = 1
  /\ pc = "wait"
  /\ nCreate = 1
  /\ nDestroy = 0
====
